---- MODULE Spec2Model ----
(***************************************************************************)
(* FlaskJobTracker (src/app/app.py): a job-application tracker.  One table *)
(* `job`, a WTForms form `JobForm`, and the request handlers home, jobs,   *)
(* add_job, job_details and job_edit.                                      *)
(*                                                                         *)
(* Representation                                                          *)
(*   - a submitted form field is its `valuelist` (formdata.getlist(name)): *)
(*     <<>> when the key is absent from the POST body, <<text>> otherwise; *)
(*   - a date object is <<year, month, day>>, and None for a date is <<>>; *)
(*   - Python None / SQL NULL for a text column is the token None;         *)
(*   - a Python int built from the URL (<int:job_id>) is its sequence of   *)
(*     decimal digits without leading zeros, so that values beyond the     *)
(*     64-bit range of an SQLite INTEGER are representable;                *)
(*   - the table is the sequence of its rows in rowid order;               *)
(*   - requests run concurrently, one per worker: a handler takes one step *)
(*     per statement that reads or writes the database, and the statements *)
(*     of different requests interleave.                                   *)
(***************************************************************************)
EXTENDS Integers, Sequences, FiniteSets, TLC

VARIABLES
    job_table, \* the rows of table `job`, in rowid order
    clock,     \* the database's CURRENT_TIMESTAMP, in logical ticks
    assigned,  \* history: every id an INSERT has assigned so far
    last,      \* the most recently completed request and its response
    sess       \* per worker: the request it is in the middle of

vars == <<job_table, clock, assigned, last, sess>>

-----------------------------------------------------------------------------
(* Bounds of the model *)

\* rows the table may hold under Spec
MaxJobs == 2
\* rows the table may hold under SpecRecent (more than RECENT_LIMIT)
MaxRecentJobs == 6
\* rows the table may hold under SpecConc
MaxConcJobs == 1
\* rows the table may hold under SpecDash
MaxDashJobs == 2

-----------------------------------------------------------------------------
(* Program constants *)

None == "<None>"
NoDate == <<>>

STATUS_CHOICES ==
    << <<"Waiting for Response", "Waiting for Response">>,
       <<"Interviewing", "Interviewing">>,
       <<"Rejected Application", "Rejected Application">>,
       <<"Ghosted Application", "Ghosted Application">> >>

RESUME_CHOICES == << <<"Default Resume", "Default Resume">> >>

\* .limit(5) of the dashboard's recent_jobs query
RECENT_LIMIT == 5

\* the largest value an SQLite INTEGER holds, 2^63 - 1, in decimal digits
SQLITE_MAX_INTEGER == <<9,2,2,3,3,7,2,0,3,6,8,5,4,7,7,5,8,0,7>>

MutableFields ==
    {"application_date", "status", "company", "position", "resume_used",
     "job_url", "job_description", "notes", "salary"}

-----------------------------------------------------------------------------
(* Python ints of arbitrary size, as decimal digit sequences *)

RECURSIVE ToDigits(_)
ToDigits(n) ==
    IF n < 10 THEN <<n>> ELSE Append(ToDigits(n \div 10), n % 10)

RECURSIVE StripZeros(_)
StripZeros(ds) ==
    IF Len(ds) > 1 /\ Head(ds) = 0 THEN StripZeros(Tail(ds)) ELSE ds

RECURSIVE DigitsLess(_, _)
DigitsLess(a, b) ==
    IF Len(a) # Len(b) THEN Len(a) < Len(b)
    ELSE IF a = <<>> THEN FALSE
    ELSE IF Head(a) # Head(b) THEN Head(a) < Head(b)
    ELSE DigitsLess(Tail(a), Tail(b))

\* werkzeug IntegerConverter: regex \d+, to_python = int(value)
IntegerConverter(text) == StripZeros(text)

-----------------------------------------------------------------------------
(* Dates *)

IsLeap(y) == (y % 4 = 0 /\ y % 100 # 0) \/ y % 400 = 0

DaysInMonth(y, m) ==
    IF m = 2 THEN (IF IsLeap(y) THEN 29 ELSE 28)
    ELSE IF m \in {4, 6, 9, 11} THEN 30 ELSE 31

\* the character at position i of a text, "" beyond its end
At(text, i) == IF i \in 1..Len(text) THEN SubSeq(text, i, i) ELSE ""

\* [lo-hi] of a pattern: the ASCII digits lo to hi
CharRange ==
    [lo \in 0..9, hi \in 0..9 |->
        {SubSeq("0123456789", k + 1, k + 1) : k \in lo..hi}]

\* \d of a pattern and the digits int() converts: the decimal digits of
\* every script, zero to nine in each.  Listed are the ASCII digits and the
\* scripts whose digits the parser takes in a string; Arabic-Indic,
\* Devanagari, fullwidth and the other decimal digits are digits for Python
\* as well, and no text of the model holds them.
DecimalDigits ==
    <<"0123456789",
      "۰۱۲۳۴۵۶۷۸۹",
      "߀߁߂߃߄߅߆߇߈߉",
      "০১২৩৪৫৬৭৮৯",
      "૦૧૨૩૪૫૬૭૮૯",
      "௦௧௨௩௪௫௬௭௮௯",
      "೦೧೨೩೪೫೬೭೮೯",
      "෦෧෨෩෪෫෬෭෮෯",
      "໐໑໒໓໔໕໖໗໘໙",
      "႐႑႒႓႔႕႖႗႘႙",
      "០១២៣៤៥៦៧៨៩",
      "᧐᧑᧒᧓᧔᧕᧖᧗᧘᧙",
      "᪀᪁᪂᪃᪄᪅᪆᪇᪈᪉",
      "᪐᪑᪒᪓᪔᪕᪖᪗᪘᪙",
      "᮰᮱᮲᮳᮴᮵᮶᮷᮸᮹",
      "꣐꣑꣒꣓꣔꣕꣖꣗꣘꣙",
      "꧐꧑꧒꧓꧔꧕꧖꧗꧘꧙",
      "꧰꧱꧲꧳꧴꧵꧶꧷꧸꧹",
      "꯰꯱꯲꯳꯴꯵꯶꯷꯸꯹">>

DecimalChars ==
    {SubSeq(DecimalDigits[b], k, k) : b \in DOMAIN DecimalDigits, k \in 1..10}

\* int(c) of a decimal digit
DecimalValue ==
    [c \in DecimalChars |->
        CHOOSE v \in 0..9 :
            \E b \in DOMAIN DecimalDigits :
                SubSeq(DecimalDigits[b], v + 1, v + 1) = c]

\* %Y, (?P<Y>\d\d\d\d), at position i: the characters it matches
MatchYear(text, i) ==
    IF \A k \in i..(i + 3) : At(text, k) \in DecimalChars THEN 4 ELSE 0

\* %m, (?P<m>1[0-2]|0[1-9]|[1-9]), at position i with the "-" of the format
\* after it: the characters the first alternative that fits matches
MatchMonth(text, i) ==
    IF /\ \/ At(text, i) = "1" /\ At(text, i + 1) \in CharRange[0, 2]
          \/ At(text, i) = "0" /\ At(text, i + 1) \in CharRange[1, 9]
       /\ At(text, i + 2) = "-"
    THEN 2
    ELSE IF At(text, i) \in CharRange[1, 9] /\ At(text, i + 1) = "-"
    THEN 1
    ELSE 0

\* %d, (?P<d>3[0-1]|[1-2]\d|0[1-9]|[1-9]| [1-9]), at position i, the end of
\* the pattern: the characters the first alternative that fits matches
MatchDay(text, i) ==
    IF \/ At(text, i) = "3" /\ At(text, i + 1) \in CharRange[0, 1]
       \/ At(text, i) \in CharRange[1, 2] /\ At(text, i + 1) \in DecimalChars
       \/ At(text, i) = "0" /\ At(text, i + 1) \in CharRange[1, 9]
    THEN 2
    ELSE IF At(text, i) \in CharRange[1, 9] THEN 1
    ELSE IF At(text, i) = " " /\ At(text, i + 1) \in CharRange[1, 9] THEN 2
    ELSE 0

\* int(text) of a matched group: decimal digits, after a space for a day
RECURSIVE int(_)
int(text) ==
    IF text = "" THEN 0
    ELSE IF At(text, 1) = " " THEN int(SubSeq(text, 2, Len(text)))
    ELSE 10 * int(SubSeq(text, 1, Len(text) - 1))
             + DecimalValue[At(text, Len(text))]

\* datetime.datetime.strptime(text, "%Y-%m-%d").date(), NoDate for a
\* ValueError: the text does not match the format, characters remain after
\* the match, or the numbers are not a date
strptime(text) ==
    LET ylen == MatchYear(text, 1)
        mlen == MatchMonth(text, 6)
        dpos == 6 + mlen + 1
        dlen == MatchDay(text, dpos)
        year  == int(SubSeq(text, 1, 4))
        month == int(SubSeq(text, 6, 5 + mlen))
        day   == int(SubSeq(text, dpos, dpos + dlen - 1))
    IN IF /\ ylen = 4
          /\ At(text, 5) = "-"
          /\ mlen > 0
          /\ dlen > 0
          /\ Len(text) = dpos + dlen - 1
          /\ year >= 1
          /\ day <= DaysInMonth(year, month)
       THEN <<year, month, day>>
       ELSE NoDate

\* sep.join(texts) of a list that is not empty
RECURSIVE join(_, _)
join(sep, texts) ==
    IF Len(texts) = 1 THEN texts[1]
    ELSE texts[1] \o sep \o join(sep, Tail(texts))

\* a < b on date objects; NULL sorts before every date, as in SQLite
DateLess(a, b) ==
    IF b = NoDate THEN FALSE
    ELSE IF a = NoDate THEN TRUE
    ELSE \/ a[1] < b[1]
         \/ a[1] = b[1] /\ a[2] < b[2]
         \/ a[1] = b[1] /\ a[2] = b[2] /\ a[3] < b[3]

-----------------------------------------------------------------------------
(* JobForm: field processing and validation (WTForms) *)

ChoiceValues(choices) == {choices[i][1] : i \in DOMAIN choices}

\* the characters str.strip() removes, those for which str.isspace() is true:
\* tab, line feed, vertical tab, form feed, carriage return, the separators
\* 0x1c to 0x1f, space, U+0085, U+00A0 and U+1680, each one character of a
\* string.  U+2000 to U+200A, U+2028, U+2029, U+202F, U+205F and U+3000 are
\* whitespace for Python as well; the parser refuses them in a string, so no
\* text of the model holds them.
Whitespace ==
    {"\t", "\n", "", "\f", "\r", "", "", "", "", " ",
     "", " ", " "}

RECURSIVE lstrip(_)
lstrip(text) ==
    IF Len(text) > 0 /\ SubSeq(text, 1, 1) \in Whitespace
    THEN lstrip(SubSeq(text, 2, Len(text)))
    ELSE text

RECURSIVE rstrip(_)
rstrip(text) ==
    IF Len(text) > 0 /\ SubSeq(text, Len(text), Len(text)) \in Whitespace
    THEN rstrip(SubSeq(text, 1, Len(text) - 1))
    ELSE text

\* str.strip()
strip(text) == rstrip(lstrip(text))

\* StringField / TextAreaField / SelectField(coerce=str): the default (None)
\* stays unless the key was submitted
StringField_data(valuelist) ==
    IF valuelist # <<>> THEN valuelist[1] ELSE None

\* DateField(default=date.today): process_data(default) runs first and
\* process_formdata returns at once on an empty valuelist, so the default
\* stays when the key is absent; otherwise it parses " ".join(valuelist)
\* and a ValueError leaves None
DateField_data(valuelist, today) ==
    IF valuelist = <<>> THEN today ELSE strptime(join(" ", valuelist))

\* DataRequired on a text field: field.data and field.data.strip()
DataRequired(data) == data # None /\ data # "" /\ strip(data) # ""

\* DataRequired on the date field: data is a date object
DataRequired_date(data) == data # NoDate

\* mutant of SelectField_pre_validate: validate_choice switched off
SelectField_no_pre_validate(data, choices) == TRUE

\* SelectField.pre_validate: data is one of the choices
SelectField_pre_validate(data, choices) == data \in ChoiceValues(choices)

\* form.<field>.data of a JobForm built on the request body formdata, for
\* the nine model fields
JobForm_data(formdata, today) ==
    [application_date |-> DateField_data(formdata.application_date, today),
     status           |-> StringField_data(formdata.status),
     company          |-> StringField_data(formdata.company),
     position         |-> StringField_data(formdata.position),
     resume_used      |-> StringField_data(formdata.resume_used),
     job_url          |-> StringField_data(formdata.job_url),
     job_description  |-> StringField_data(formdata.job_description),
     notes            |-> StringField_data(formdata.notes),
     salary           |-> StringField_data(formdata.salary)]

\* form.errors after form.validate(): the names of the fields whose
\* validation fails, csrf_token for a token that is not valid
JobForm_errors(formdata, data) ==
       (IF formdata.csrf_token THEN {} ELSE {"csrf_token"})
    \cup (IF DataRequired_date(data.application_date)
          THEN {} ELSE {"application_date"})
    \cup (IF SelectField_pre_validate(data.status, STATUS_CHOICES)
          THEN {} ELSE {"status"})
    \cup (IF DataRequired(data.company) THEN {} ELSE {"company"})
    \cup (IF DataRequired(data.position) THEN {} ELSE {"position"})
    \cup (IF /\ SelectField_pre_validate(data.resume_used, RESUME_CHOICES)
             /\ DataRequired(data.resume_used)
          THEN {} ELSE {"resume_used"})

\* form = JobForm(): the form built on the request body formdata, with the
\* data its fields take from it and the errors validate() finds in them
JobForm(formdata, today) ==
    LET data == JobForm_data(formdata, today)
    IN [formdata |-> formdata,
        data     |-> data,
        errors   |-> JobForm_errors(formdata, data)]

\* FlaskForm.validate_on_submit: is_submitted() and validate()
validate_on_submit(method, form) == method = "POST" /\ form.errors = {}

-----------------------------------------------------------------------------
(* The table `job` (Flask-SQLAlchemy over SQLite) *)

\* mutant of NextRowid: the largest rowid is handed out again
NextRowid_reuse(rows) ==
    IF rows = <<>> THEN 1
    ELSE CHOOSE m \in {rows[i].id : i \in DOMAIN rows} :
             \A i \in DOMAIN rows : rows[i].id <= m

\* SQLite rowid of an INTEGER PRIMARY KEY column: largest rowid plus one
NextRowid(rows) ==
    IF rows = <<>> THEN 1
    ELSE (CHOOSE m \in {rows[i].id : i \in DOMAIN rows} :
              \A i \in DOMAIN rows : rows[i].id <= m) + 1

\* Job(...): the row a Job object with these attributes inserts
Job(id, data, now) ==
    [id               |-> id,
     application_date |-> data.application_date,
     status           |-> data.status,
     company          |-> data.company,
     position         |-> data.position,
     resume_used      |-> data.resume_used,
     job_url          |-> data.job_url,
     job_description  |-> data.job_description,
     notes            |-> data.notes,
     salary           |-> data.salary,
     created_at       |-> <<now>>]

\* db.session.add(new_job); db.session.commit()
Insert(rows, data, now) == Append(rows, Job(NextRowid(rows), data, now))

\* Job.query.get_or_404(job_id): binding an int beyond 64 bits raises
\* OverflowError in the driver (an unhandled exception: status 500)
get_or_404(rows, ident) ==
    IF DigitsLess(SQLITE_MAX_INTEGER, ident)
    THEN [code |-> 500, job |-> <<>>]
    ELSE LET found == SelectSeq(rows, LAMBDA r : ToDigits(r.id) = ident)
         IN IF found = <<>> THEN [code |-> 404, job |-> <<>>]
            ELSE [code |-> 200, job |-> <<found[1]>>]

\* job.<field> = form.<field>.data for the nine fields, then commit: the
\* unit of work emits UPDATE job SET <the attributes whose value differs from
\* the loaded one> WHERE id = <loaded id>
Flush(rows, loaded, data) ==
    [i \in DOMAIN rows |->
        IF rows[i].id = loaded.id
        THEN [f \in DOMAIN rows[i] |->
                 IF f \in MutableFields /\ data[f] # loaded[f]
                 THEN data[f] ELSE rows[i][f]]
        ELSE rows[i]]

\* .filter_by(status=status)
filter_by(rows, status) == SelectSeq(rows, LAMBDA r : r.status = status)

\* mutant of SorterInsert: r goes before the rows of equal key
SorterInsert_unstable(sorted, r) ==
    LET pos == Cardinality({i \in DOMAIN sorted :
                   DateLess(r.application_date, sorted[i].application_date)})
    IN SubSeq(sorted, 1, pos) \o <<r>> \o SubSeq(sorted, pos + 1, Len(sorted))

\* one step of the sorter: r goes after every row that does not sort after it
SorterInsert(sorted, r) ==
    LET pos == Cardinality({i \in DOMAIN sorted :
                   ~DateLess(sorted[i].application_date, r.application_date)})
    IN SubSeq(sorted, 1, pos) \o <<r>> \o SubSeq(sorted, pos + 1, Len(sorted))

\* .order_by(Job.application_date.desc()): the rows are scanned in rowid
\* order and sorted on the key alone; SQLite's sorter keeps rows of equal
\* key in scan order
RECURSIVE order_by_application_date_desc(_)
order_by_application_date_desc(rows) ==
    IF rows = <<>> THEN <<>>
    ELSE SorterInsert(
             order_by_application_date_desc(SubSeq(rows, 1, Len(rows) - 1)),
             rows[Len(rows)])

\* .limit(n)
limit(rows, n) == SubSeq(rows, 1, IF Len(rows) < n THEN Len(rows) ELSE n)

\* .count()
count(rows) == Len(rows)

-----------------------------------------------------------------------------
(* Requests and responses *)

\* a request without a form body
NoForm ==
    [csrf_token |-> FALSE, application_date |-> <<>>, status |-> <<>>,
     company |-> <<>>, position |-> <<>>, resume_used |-> <<>>,
     job_url |-> <<>>, job_description |-> <<>>, notes |-> <<>>,
     salary |-> <<>>]

\* no form was built
NoData ==
    [application_date |-> NoDate, status |-> None, company |-> None,
     position |-> None, resume_used |-> None, job_url |-> None,
     job_description |-> None, notes |-> None, salary |-> None]

\* statuses = {}
EmptyDict == [s \in {} |-> 0]

\* the shape of `last`: the request (op, method, path_text, status_arg, form)
\* and what the handler answered: the status code, the template or redirect
\* target (view), and the template's context (rows, total_jobs, statuses, the
\* form's data and errors); new_id is new_job.id after the commit.  The form
\* of a request is recorded when the handler builds its JobForm.
NoRequest ==
    [op |-> "", method |-> "", path_text |-> <<>>, status_arg |-> <<>>,
     form |-> NoForm, code |-> 0, view |-> "", rows |-> <<>>,
     total_jobs |-> 0, statuses |-> EmptyDict, form_data |-> NoData,
     errors |-> {}, new_id |-> 0]

\* the nine form-backed attributes of a row
JobFields(row) == [f \in MutableFields |-> row[f]]

-----------------------------------------------------------------------------
(* The handlers' queries *)

\* home: recent_jobs
recent_jobs(rows) == limit(order_by_application_date_desc(rows), RECENT_LIMIT)

\* statuses[status] = count
DictSet(dict, key, value) ==
    [k \in DOMAIN dict \cup {key} |-> IF k = key THEN value ELSE dict[k]]

\* mutant of statuses_set: the `if count > 0` test dropped
statuses_set_keep_zero(statuses, status, n) == DictSet(statuses, status, n)

\* home: if count > 0: statuses[status_value] = count
statuses_set(statuses, status, n) ==
    IF n > 0 THEN DictSet(statuses, status, n) ELSE statuses

\* request.args.get('status')
args_get(valuelist) == IF valuelist = <<>> THEN None ELSE valuelist[1]

\* mutant of all_jobs: the filter_by dropped
all_jobs_unfiltered(rows, status_filter) ==
    order_by_application_date_desc(rows)

\* jobs: all_jobs; `if status_filter:` is false for None and for ""
all_jobs(rows, status_filter) ==
    IF status_filter # None /\ status_filter # ""
    THEN order_by_application_date_desc(filter_by(rows, status_filter))
    ELSE order_by_application_date_desc(rows)

-----------------------------------------------------------------------------
(* The handlers.  A handler that touches the database once is one action;  *)
(* home and the POST of job_edit touch it several times and are one action  *)
(* per database statement, the work between two statements (building and    *)
(* validating the form, rendering) belonging to the step of the statement   *)
(* before or after it.  Each request runs on a worker with its own session. *)

Workers == {"w1", "w2"}

\* a worker between requests; otherwise pc names the statement the request
\* runs next, and the other fields hold its locals
Idle ==
    [pc |-> "idle", path_text |-> <<>>, loaded |-> <<>>, i |-> 0,
     total_jobs |-> 0, rows |-> <<>>, statuses |-> EmptyDict]

\* GET /: total_jobs = Job.query.count()
home_count(w) ==
    /\ sess[w].pc = "idle"
    /\ sess' = [sess EXCEPT ![w] =
                   [Idle EXCEPT !.pc = "home_recent",
                                !.total_jobs = count(job_table)]]
    /\ UNCHANGED <<job_table, clock, assigned, last>>

\* GET /: recent_jobs = Job.query.order_by(...).limit(5).all()
home_recent(w) ==
    /\ sess[w].pc = "home_recent"
    /\ sess' = [sess EXCEPT ![w] =
                   [@ EXCEPT !.pc = "home_status", !.i = 1,
                             !.rows = recent_jobs(job_table)]]
    /\ UNCHANGED <<job_table, clock, assigned, last>>

\* GET /: one turn of the loop over STATUS_CHOICES, a COUNT query each; the
\* last turn is followed by render_template
home_status(w) ==
    LET s        == sess[w]
        status   == STATUS_CHOICES[s.i][1]
        n        == count(filter_by(job_table, status))
        statuses == statuses_set(s.statuses, status, n)
    IN /\ s.pc = "home_status"
       /\ IF s.i < Len(STATUS_CHOICES)
          THEN /\ sess' = [sess EXCEPT ![w] =
                              [s EXCEPT !.i = s.i + 1, !.statuses = statuses]]
               /\ UNCHANGED last
          ELSE /\ sess' = [sess EXCEPT ![w] = Idle]
               /\ last' = [NoRequest EXCEPT
                              !.op = "home", !.method = "GET", !.code = 200,
                              !.view = "dashboard.html",
                              !.total_jobs = s.total_jobs,
                              !.rows = s.rows,
                              !.statuses = statuses]
       /\ UNCHANGED <<job_table, clock, assigned>>

\* GET /jobs[?status=...]
jobs(status_arg) ==
    /\ last' = [NoRequest EXCEPT
                   !.op = "jobs", !.method = "GET", !.status_arg = status_arg,
                   !.code = 200, !.view = "jobs.html",
                   !.rows = all_jobs(job_table, args_get(status_arg))]
    /\ UNCHANGED <<job_table, clock, assigned, sess>>

\* GET or POST /add-job, form = JobForm() built on the request's body; cap
\* bounds the table
add_job(method, form, cap) ==
    LET req == [NoRequest EXCEPT
                   !.op = "add_job", !.method = method,
                   !.form = form.formdata]
    IN IF validate_on_submit(method, form)
       THEN /\ Len(job_table) < cap
            /\ job_table' = Insert(job_table, form.data, clock)
            /\ clock' = clock + 1
            /\ assigned' = assigned \cup {NextRowid(job_table)}
            /\ last' = [req EXCEPT
                           !.code = 302, !.view = "redirect:jobs",
                           !.form_data = form.data,
                           !.new_id = NextRowid(job_table)]
            /\ UNCHANGED sess
       ELSE /\ last' = [req EXCEPT
                           !.code = 200, !.view = "add_job.html",
                           !.form_data = form.data,
                           !.errors = IF method = "POST"
                                      THEN form.errors ELSE {}]
            /\ UNCHANGED <<job_table, clock, assigned, sess>>

\* GET /job/<int:job_id>
job_details(path_text) ==
    LET req == [NoRequest EXCEPT
                   !.op = "job_details", !.method = "GET",
                   !.path_text = path_text]
        got == get_or_404(job_table, IntegerConverter(path_text))
    IN /\ last' = IF got.code = 200
                  THEN [req EXCEPT !.code = 200, !.view = "job_details.html",
                                   !.rows = got.job]
                  ELSE [req EXCEPT !.code = got.code, !.view = "error"]
       /\ UNCHANGED <<job_table, clock, assigned, sess>>

\* GET or POST /job/<int:job_id>/edit: job = Job.query.get_or_404(job_id).
\* The abort ends the request; a GET builds the form, fills it from job and
\* renders; a POST goes on to edit_submit.
edit_fetch(w, method, path_text) ==
    LET req == [NoRequest EXCEPT
                   !.op = "job_edit", !.method = method,
                   !.path_text = path_text]
        got == get_or_404(job_table, IntegerConverter(path_text))
    IN /\ sess[w].pc = "idle"
       /\ IF got.code # 200
          THEN /\ last' = [req EXCEPT !.code = got.code, !.view = "error"]
               /\ UNCHANGED sess
          ELSE IF method = "GET"
          THEN /\ last' = [req EXCEPT
                              !.code = 200, !.view = "edit_job.html",
                              !.rows = got.job,
                              !.form_data = JobFields(got.job[1])]
               /\ UNCHANGED sess
          ELSE /\ sess' = [sess EXCEPT ![w] =
                              [Idle EXCEPT !.pc = "edit_submit",
                                           !.path_text = path_text,
                                           !.loaded = got.job]]
               /\ UNCHANGED last
       /\ UNCHANGED <<job_table, clock, assigned>>

\* POST /job/<int:job_id>/edit, after get_or_404: form = JobForm() built on
\* the request's body; when it validates, the nine assignments, db.session.commit() (the
\* UPDATE of the session's unit of work) and the redirect; when it does not,
\* the re-render
edit_submit(w, form) ==
    LET s   == sess[w]
        req == [NoRequest EXCEPT
                   !.op = "job_edit", !.method = "POST",
                   !.path_text = s.path_text, !.form = form.formdata]
    IN /\ s.pc = "edit_submit"
       /\ sess' = [sess EXCEPT ![w] = Idle]
       /\ IF validate_on_submit("POST", form)
          THEN /\ job_table' = Flush(job_table, s.loaded[1], form.data)
               /\ last' = [req EXCEPT
                              !.code = 302, !.view = "redirect:job_details",
                              !.form_data = form.data]
          ELSE /\ last' = [req EXCEPT
                              !.code = 200, !.view = "edit_job.html",
                              !.rows = s.loaded,
                              !.form_data = form.data,
                              !.errors = form.errors]
               /\ UNCHANGED job_table
       /\ UNCHANGED <<clock, assigned>>

-----------------------------------------------------------------------------
(* Inputs *)

Field(text) == <<text>>
Absent == <<>>

\* section 8 of the specification: the example record
FormAcme ==
    [csrf_token |-> TRUE, application_date |-> Field("2024-01-15"),
     status |-> Field("Interviewing"), company |-> Field("Acme"),
     position |-> Field("Engineer"), resume_used |-> Field("Default Resume"),
     job_url |-> Absent, job_description |-> Absent, notes |-> Absent,
     salary |-> Absent]

\* the example's edit: only the status differs
FormAcmeRejected == [FormAcme EXCEPT !.status = Field("Rejected Application")]

\* only the notes differ from the example record
FormAcmeNotes == [FormAcme EXCEPT !.notes = Field("Called back")]

\* every field submitted
FormGlobex ==
    [csrf_token |-> TRUE, application_date |-> Field("2024-02-01"),
     status |-> Field("Waiting for Response"), company |-> Field("Globex"),
     position |-> Field("Manager"), resume_used |-> Field("Default Resume"),
     job_url |-> Field("https://globex.example/jobs/1"),
     job_description |-> Field("Lead the team"), notes |-> Field("Referred"),
     salary |-> Field("100k")]

\* no application_date key in the body; the optional fields submitted empty
FormNoDate ==
    [csrf_token |-> TRUE, application_date |-> Absent,
     status |-> Field("Ghosted Application"), company |-> Field(" Initech "),
     position |-> Field("Analyst"), resume_used |-> Field("Default Resume"),
     job_url |-> Field(""), job_description |-> Field(""),
     notes |-> Field(""), salary |-> Field("")]

\* the example's edit with another date as well, submitted in two values of
\* the key that join to "2024-01- 5"
FormSplitDate ==
    [FormAcmeRejected EXCEPT !.application_date = <<"2024-01-", "5">>]

\* a text of two spaces and every other whitespace character
AllWhitespace ==
    "  \t\n\f\r   "

\* FormGlobex with one field spoiled
BadForms ==
    {[FormGlobex EXCEPT !.csrf_token = FALSE],
     [FormGlobex EXCEPT !.application_date = Field("2024-02-30")],
     [FormGlobex EXCEPT !.application_date =
                            <<"2024-01-15", "2024-01-16">>],
     [FormGlobex EXCEPT !.status = Field("Offer")],
     [FormGlobex EXCEPT !.company = Absent],
     [FormGlobex EXCEPT !.company = Field("")],
     [FormGlobex EXCEPT !.position = Field(AllWhitespace)],
     [FormGlobex EXCEPT !.resume_used = Absent],
     [FormGlobex EXCEPT !.resume_used = Field("Other Resume")]}

\* bodies of Spec
Forms == {FormAcme, FormSplitDate, FormNoDate} \cup BadForms

\* bodies of SpecRecent
RecentForms == {FormAcme, FormGlobex}

\* bodies of SpecConc
ConcForms ==
    {FormAcme, FormAcmeRejected, FormAcmeNotes,
     [FormGlobex EXCEPT !.company = Absent]}

\* bodies of SpecDash: of POST /add-job and of POST /job/<id>/edit
DashAddForms == {FormAcme, FormGlobex}

DashEditForms ==
    {FormAcmeRejected, [FormGlobex EXCEPT !.status = Field("Offer")]}

\* date.today() when the form is built
TodayChoices == {<<2024, 2, 2>>}

\* ?status=... of GET /jobs
StatusArgs ==
    {Absent, Field(""), Field("Offer")}
    \cup {Field(v) : v \in ChoiceValues(STATUS_CHOICES)}

\* 2^63
SQLITE_MAX_INTEGER_PLUS_1 == <<9,2,2,3,3,7,2,0,3,6,8,5,4,7,7,5,8,0,8>>

\* <int:job_id> texts of GET /job/<id>: every stored id, the next free one,
\* an id written with a leading zero, and the two ends of the 64-bit range
PathTexts ==
    {ToDigits(n) : n \in 1..(Len(job_table) + 1)}
    \cup {<<0, 1>>, SQLITE_MAX_INTEGER, SQLITE_MAX_INTEGER_PLUS_1}

\* <int:job_id> texts of /job/<id>/edit: the first id, the next free one and
\* the first one beyond the 64-bit range
EditPathTexts ==
    {<<1>>, ToDigits(Len(job_table) + 1), SQLITE_MAX_INTEGER_PLUS_1}

\* the worker that serves the Dashboard requests of SpecRecent
RecentWorkers == {"w1"}

Methods == {"GET", "POST"}

\* the forms JobForm() builds on the bodies of each specification
JobForms == {JobForm(f, t) : f \in Forms, t \in TodayChoices}

RecentJobForms == {JobForm(f, t) : f \in RecentForms, t \in TodayChoices}

ConcJobForms == {JobForm(f, t) : f \in ConcForms, t \in TodayChoices}

DashAddJobForms == {JobForm(f, t) : f \in DashAddForms, t \in TodayChoices}

DashEditJobForms == {JobForm(f, t) : f \in DashEditForms, t \in TodayChoices}

\* a GET carries no form body: every field of the form holds its default
GetJobForms == {JobForm(NoForm, t) : t \in TodayChoices}

BodyForms(method, forms) == IF method = "GET" THEN GetJobForms ELSE forms

-----------------------------------------------------------------------------
(* Specifications *)

Init ==
    /\ job_table = <<>>
    /\ clock = 1
    /\ assigned = {}
    /\ last = NoRequest
    /\ sess = [w \in Workers |-> Idle]

\* adding, listing, showing and editing records
Next ==
    \/ \E a \in StatusArgs : jobs(a)
    \/ \E m \in Methods : \E f \in BodyForms(m, JobForms) :
           add_job(m, f, MaxJobs)
    \/ \E p \in PathTexts : job_details(p)
    \/ \E w \in Workers : \E m \in Methods : \E p \in EditPathTexts :
           edit_fetch(w, m, p)
    \/ \E w \in Workers : \E f \in JobForms : edit_submit(w, f)

Spec == Init /\ [][Next]_vars

\* the dashboard while records are added and edited
NextDash ==
    \/ \E w \in Workers : home_count(w)
    \/ \E w \in Workers : home_recent(w)
    \/ \E w \in Workers : home_status(w)
    \/ \E f \in DashAddJobForms : add_job("POST", f, MaxDashJobs)
    \/ \E w \in Workers : \E p \in EditPathTexts : edit_fetch(w, "POST", p)
    \/ \E w \in Workers : \E f \in DashEditJobForms : edit_submit(w, f)

SpecDash == Init /\ [][NextDash]_vars

\* the dashboard over a table of more than RECENT_LIMIT rows, while records
\* are added
NextRecent ==
    \/ \E w \in RecentWorkers : home_count(w)
    \/ \E w \in RecentWorkers : home_recent(w)
    \/ \E w \in RecentWorkers : home_status(w)
    \/ \E f \in RecentJobForms : add_job("POST", f, MaxRecentJobs)

SpecRecent == Init /\ [][NextRecent]_vars

\* edits of one record by two requests at a time
NextConc ==
    \/ \E f \in ConcJobForms : add_job("POST", f, MaxConcJobs)
    \/ \E w \in Workers : \E p \in EditPathTexts : edit_fetch(w, "POST", p)
    \/ \E w \in Workers : \E f \in ConcJobForms : edit_submit(w, f)

SpecConc == Init /\ [][NextConc]_vars

-----------------------------------------------------------------------------
(* Vocabulary of the claims *)

Ids(rows) == {rows[i].id : i \in DOMAIN rows}

\* the path text names a stored record
Stored(rows, path_text) ==
    \E i \in DOMAIN rows : ToDigits(rows[i].id) = IntegerConverter(path_text)

\* what a body submits for a text field: its first value, nothing when the
\* key is absent
SubmittedText(valuelist) == IF valuelist = <<>> THEN None ELSE valuelist[1]

\* what a body submits for the date: the date its values denote, nothing when
\* the key is absent
SubmittedDate(valuelist) ==
    IF valuelist = <<>> THEN NoDate ELSE strptime(join(" ", valuelist))

\* the nine values a form body submits
Submitted(form) ==
    [f \in MutableFields |->
        IF f = "application_date" THEN SubmittedDate(form[f])
        ELSE SubmittedText(form[f])]

\* a required field is missing: its key is absent or its value is empty
MissingText(valuelist) == valuelist = <<>> \/ valuelist[1] = ""

MissingDate(valuelist) == valuelist = <<>> \/ valuelist[1] = ""

\* a submission the specification's validation rejects: a required field
\* missing, or status / resume_used outside its enumeration
FailsValidation(form) ==
    \/ MissingDate(form.application_date)
    \/ MissingText(form.company)
    \/ MissingText(form.position)
    \/ MissingText(form.resume_used)
    \/ SubmittedText(form.status) \notin ChoiceValues(STATUS_CHOICES)
    \/ SubmittedText(form.resume_used) \notin ChoiceValues(RESUME_CHOICES)

\* rows is in descending application_date order
Descending(rows) ==
    \A i, j \in DOMAIN rows :
        i < j => ~DateLess(rows[i].application_date, rows[j].application_date)

\* result holds exactly the rows of the table that satisfy Keep, once each
ExactlyRows(result, rows, Keep(_)) ==
    /\ \A i \in DOMAIN result : \E j \in DOMAIN rows : result[i] = rows[j]
    /\ \A j \in DOMAIN rows :
           Keep(rows[j]) <=>
               Cardinality({i \in DOMAIN result : result[i] = rows[j]}) = 1
    /\ \A i \in DOMAIN result : Keep(result[i])

\* the step ends a request: last' is the request and its response.  The
\* handlers of one statement leave sess alone; home and the POST of job_edit
\* end when their worker goes back to idle.
Responds ==
    \/ sess' = sess
    \/ \E w \in Workers : sess[w].pc # "idle" /\ sess'[w].pc = "idle"

-----------------------------------------------------------------------------
(* C1 *)

\* C1: every Add submission that passes validation inserts exactly one
\* record; Details for the id assigned to it answers with a record whose
\* nine form-backed fields equal the submitted values and whose created_at
\* is set; and a step that is not a successful Edit of an id leaves what
\* Details answers for that id unchanged.
C1_AddThenDetails ==
    [][ /\ (Responds /\ last'.op = "add_job" /\ last'.code = 302) =>
              /\ Len(job_table') = Len(job_table) + 1
              /\ LET got == get_or_404(job_table', ToDigits(last'.new_id))
                 IN /\ got.code = 200
                    /\ JobFields(got.job[1]) = Submitted(last'.form)
                    /\ got.job[1].created_at # <<>>
        /\ \A id \in Ids(job_table) :
              ~(/\ Responds
                /\ last'.op = "job_edit" /\ last'.code = 302
                /\ IntegerConverter(last'.path_text) = ToDigits(id))
              => get_or_404(job_table', ToDigits(id))
                     = get_or_404(job_table, ToDigits(id))
      ]_vars

-----------------------------------------------------------------------------
(* C2 *)

\* C2: an Add or Edit submission (Edit: of a stored id) with a required
\* field missing, or with status / resume_used outside its enumeration,
\* leaves the table unchanged and is answered by the re-rendered form, not
\* by a redirect.
C2_InvalidSubmissionNoChange ==
    [][ (/\ Responds
         /\ last'.op \in {"add_job", "job_edit"}
         /\ last'.method = "POST"
         /\ last'.op = "job_edit" => Stored(job_table, last'.path_text)
         /\ FailsValidation(last'.form))
        => /\ job_table' = job_table
           /\ last'.code = 200
           /\ last'.view \in {"add_job.html", "edit_job.html"}
      ]_vars

-----------------------------------------------------------------------------
(* C3 *)

\* C3: a successful Edit submission sets the nine form-backed fields of the
\* record to the submitted values, keeps its id and created_at, leaves
\* every other record as it was and keeps the number of records.
C3_EditFrame ==
    [][ (/\ Responds
         /\ last'.op = "job_edit" /\ last'.method = "POST"
         /\ last'.code = 302)
        => LET ident  == IntegerConverter(last'.path_text)
               before == get_or_404(job_table, ident).job[1]
               after  == get_or_404(job_table', ident).job[1]
           IN /\ JobFields(after) = Submitted(last'.form)
              /\ after.id = before.id
              /\ after.created_at = before.created_at
              /\ Len(job_table') = Len(job_table)
              /\ \A i \in DOMAIN job_table :
                     job_table[i].id # before.id
                     => job_table'[i] = job_table[i]
      ]_vars

-----------------------------------------------------------------------------
(* C4 *)

\* C4, as stated: List with the status parameter present, whatever string it
\* holds, answers with exactly the records whose status equals it (an empty
\* list, not an error, when none match); List without the parameter answers
\* with every record; both in descending application_date order.
C4_ListFilter ==
    last.op = "jobs" =>
        /\ last.code = 200
        /\ last.status_arg # <<>> =>
               ExactlyRows(last.rows, job_table,
                           LAMBDA r : r.status = last.status_arg[1])
        /\ last.status_arg = <<>> =>
               ExactlyRows(last.rows, job_table, LAMBDA r : TRUE)
        /\ Descending(last.rows)

\* C4, amended: List with the status parameter present and not empty answers
\* with exactly the records whose status equals it (an empty list, not an
\* error, when none match); List with the parameter absent or empty answers
\* with every record; both in descending application_date order.
C4_ListFilterAmended ==
    last.op = "jobs" =>
        /\ last.code = 200
        /\ (last.status_arg # <<>> /\ last.status_arg[1] # "") =>
               ExactlyRows(last.rows, job_table,
                           LAMBDA r : r.status = last.status_arg[1])
        /\ (last.status_arg = <<>> \/ last.status_arg[1] = "") =>
               ExactlyRows(last.rows, job_table, LAMBDA r : TRUE)
        /\ Descending(last.rows)

\* a List by status that kept one of two records
C4_Witness ==
    /\ last.op = "jobs"
    /\ last.status_arg = <<"Interviewing">>
    /\ Len(job_table) = 2
    /\ Len(last.rows) = 1

-----------------------------------------------------------------------------
(* C5 *)

\* the statuses a record or a request can carry in this model
StatusUniverse ==
    {"Waiting for Response", "Interviewing", "Rejected Application",
     "Ghosted Application", "Offer", "", None}
    \cup {job_table[i].status : i \in DOMAIN job_table}

\* statuses maps s exactly when a record of rows has status s, to their
\* number
CountsMatch(statuses, rows) ==
    \A s \in StatusUniverse \cup DOMAIN statuses :
        LET n == Cardinality({i \in DOMAIN rows : rows[i].status = s})
        IN /\ s \in DOMAIN statuses <=> n > 0
           /\ s \in DOMAIN statuses => statuses[s] = n

\* C5, as stated: the mapping a Dashboard answers with contains a status
\* exactly when a stored record has it, and maps it to the number of those
\* records; so no status is mapped to zero, and after an Edit moved the only
\* record of a status to another status the old status's entry is absent.
C5_StatusCounts ==
    [][ \A w \in Workers :
            (sess[w].pc = "home_status" /\ sess'[w].pc = "idle") =>
                CountsMatch(last'.statuses, job_table)
      ]_vars

\* C5, amended: the Dashboard counts the statuses one query after the other,
\* starting from an empty mapping; the entry of the status it counts is in
\* the mapping exactly when a record stored at that moment has the status,
\* and is the number of those records; the entries of the other statuses
\* stay as they were counted, and the answer is the mapping after the last
\* count; no status is mapped to zero; the mapping's statuses are enumerated
\* ones, and so is every stored status.
C5_StatusCountsAmended ==
    [][ \A w \in Workers :
            (sess[w].pc = "home_status" /\ sess'[w] # sess[w]) =>
                LET s      == STATUS_CHOICES[sess[w].i][1]
                    n      == Cardinality({k \in DOMAIN job_table :
                                              job_table[k].status = s})
                    before == sess[w].statuses
                    after  == IF sess'[w].pc = "idle" THEN last'.statuses
                              ELSE sess'[w].statuses
                IN /\ sess[w].i = 1 => before = EmptyDict
                   /\ s \in DOMAIN after <=> n > 0
                   /\ s \in DOMAIN after => after[s] = n
                   /\ DOMAIN after \ {s} = DOMAIN before \ {s}
                   /\ \A t \in DOMAIN after \ {s} : after[t] = before[t]
                   /\ \A t \in DOMAIN after : after[t] > 0
                   /\ DOMAIN after \subseteq ChoiceValues(STATUS_CHOICES)
                   /\ \A k \in DOMAIN job_table :
                          job_table[k].status
                              \in ChoiceValues(STATUS_CHOICES)
                   /\ sess'[w].pc = "idle" <=>
                          sess[w].i = Len(STATUS_CHOICES)
      ]_vars

\* a Dashboard over two records, after an Edit moved the only Interviewing
\* record to Rejected Application: Interviewing is not in the mapping, and
\* the mapping and the total are those of the table
C5_Witness ==
    /\ last.op = "home"
    /\ Len(job_table) = 2
    /\ last.total_jobs = 2
    /\ DOMAIN last.statuses = {"Waiting for Response", "Rejected Application"}
    /\ CountsMatch(last.statuses, job_table)

-----------------------------------------------------------------------------
(* C6 *)

\* C6: every stored record has a non-null application_date, status, company,
\* position and resume_used, a status among the four enumerated values and
\* resume_used = 'Default Resume'.
C6_RequiredFields ==
    \A i \in DOMAIN job_table :
        LET r == job_table[i]
        IN /\ r.application_date # NoDate
           /\ r.status # None
           /\ r.company # None
           /\ r.position # None
           /\ r.resume_used # None
           /\ r.status \in {"Waiting for Response", "Interviewing",
                            "Rejected Application", "Ghosted Application"}
           /\ r.resume_used = "Default Resume"

\* two records stored, the last request a successful Edit submission whose
\* date came in two values of the key and is the record's date
C6_Witness ==
    /\ Len(job_table) = 2
    /\ last.op = "job_edit"
    /\ last.method = "POST"
    /\ last.code = 302
    /\ last.path_text = <<1>>
    /\ last.form.application_date = <<"2024-01-", "5">>
    /\ job_table[1].application_date = <<2024, 1, 5>>

-----------------------------------------------------------------------------
(* C7 *)

\* C7: no step removes a record (every stored id stays stored and the number
\* of records never decreases), the id a successful Add assigns was never
\* assigned before, and the stored ids are pairwise different.
C7_NoDeleteUniqueIds ==
    [][ /\ \A i \in DOMAIN job_table :
               \E j \in DOMAIN job_table' : job_table'[j].id = job_table[i].id
        /\ Len(job_table') >= Len(job_table)
        /\ (Responds /\ last'.op = "add_job" /\ last'.code = 302) =>
               /\ last'.new_id \notin assigned
               /\ last'.new_id \in Ids(job_table')
               /\ last'.new_id \notin Ids(job_table)
        /\ \A i, j \in DOMAIN job_table' :
               i # j => job_table'[i].id # job_table'[j].id
      ]_vars

\* a second successful Add: it was assigned id 2 and both records are stored
C7_Witness ==
    /\ Len(job_table) = 2
    /\ last.op = "add_job"
    /\ last.new_id = 2
    /\ assigned = {1, 2}

-----------------------------------------------------------------------------
(* C8 *)

\* C8: for an id that is not the id of a stored record, Details, Edit show
\* and Edit submit answer not-found (404), never a server error, and leave
\* the table unchanged.
C8_NotFound ==
    [][ (/\ Responds
         /\ last'.op \in {"job_details", "job_edit"}
         /\ ~Stored(job_table, last'.path_text))
        => /\ last'.code = 404
           /\ job_table' = job_table
      ]_vars

-----------------------------------------------------------------------------
(* C9 *)

\* the position of a stored row in insertion order
InsertionIndex(row) == CHOOSE j \in DOMAIN job_table : job_table[j] = row

\* C9: the recent list the Dashboard reads holds min(5, number of records)
\* stored records in descending application_date order, records of equal
\* date in insertion order; no record left out has a later date than a listed
\* one, and one of equal date was inserted later; the response shows the list
\* as it was read.
C9_RecentJobs ==
    [][ \A w \in Workers :
          /\ (sess[w].pc = "home_recent" /\ sess'[w].pc = "home_status") =>
               LET recent == sess'[w].rows
               IN /\ Len(recent) =
                         (IF Len(job_table) < 5 THEN Len(job_table) ELSE 5)
                  /\ \A i \in DOMAIN recent :
                         \E j \in DOMAIN job_table : recent[i] = job_table[j]
                  /\ \A i, j \in DOMAIN recent :
                         i < j =>
                             \/ DateLess(recent[j].application_date,
                                         recent[i].application_date)
                             \/ /\ recent[j].application_date
                                       = recent[i].application_date
                                /\ InsertionIndex(recent[i])
                                       < InsertionIndex(recent[j])
                  /\ \A j \in DOMAIN job_table :
                         (\A i \in DOMAIN recent : recent[i] # job_table[j]) =>
                             \A i \in DOMAIN recent :
                                 \/ DateLess(job_table[j].application_date,
                                             recent[i].application_date)
                                 \/ /\ job_table[j].application_date
                                           = recent[i].application_date
                                    /\ InsertionIndex(recent[i]) < j
          /\ (sess[w].pc = "home_status" /\ sess'[w].pc = "idle") =>
               last'.rows = sess[w].rows
      ]_vars

\* a Dashboard over six records: five listed, two of them of equal date, and
\* the record left out has the date of the last one listed
C9_Witness ==
    /\ last.op = "home"
    /\ last.total_jobs = 6
    /\ Len(job_table) = 6
    /\ Len(last.rows) = 5
    /\ last.rows[4].application_date = last.rows[5].application_date
    /\ \E j \in DOMAIN job_table :
           /\ \A i \in DOMAIN last.rows : last.rows[i] # job_table[j]
           /\ job_table[j].application_date = last.rows[5].application_date
    /\ last.rows[1].application_date # last.rows[5].application_date

-----------------------------------------------------------------------------
(* C10 *)

\* C10: when valid Edit submissions for one record run concurrently, after
\* each commit all nine form-backed fields of the record equal the values of
\* the edit that committed last, never a mix of two submissions.
C10_LastWriteWins ==
    (last.op = "job_edit" /\ last.method = "POST" /\ last.code = 302) =>
        LET got == get_or_404(job_table, IntegerConverter(last.path_text))
        IN /\ got.code = 200
           /\ JobFields(got.job[1]) = last.form_data

====
